---- MODULE Spec2Model ----
(***************************************************************************)
(* Model of AdminAutomatePython.py: the Excel-to-PowerPoint converter.     *)
(* One run of the script is create_ppt(input_file, output_file,            *)
(* template_file); the process may be started again with the same          *)
(* arguments, the file system (directories, output file, log) persisting.  *)
(***************************************************************************)
EXTENDS Integers, Sequences, FiniteSets, TLC

VARIABLES
    input_file,     \* the spreadsheet at --input: [exists, columns, rows]
    template_file,  \* the template at --template: [exists, layouts, slides]
    output_file,    \* --output, a path as a sequence of components
    dirs,           \* the directories that exist on disk
    disk,           \* the file at output_file: [present, slides]
    log,            \* excel_to_ppt.log, append-only
    pc,             \* position of the run inside create_ppt; "exited" at its end
    prs,            \* the in-memory presentation: a sequence of slides
    df,             \* the DataFrame validate_input returned
    i,              \* index of the row the loop is at
    exc,            \* message of the exception being propagated
    raisedAt,       \* the step that raised it, "" while none was raised
    status,         \* its exit status
    stderr,         \* what sys.exit printed
    stdout,         \* what print wrote
    caught,         \* times the except clause ran in this run
    saves,          \* times prs.save wrote the file in this run
    run,            \* number of the current run
    logBase,        \* length of the log when the run started
    diskAtStart,    \* the file at output_file when the run started
    prevOutcome     \* outcome of the previous run

vars == <<input_file, template_file, output_file, dirs, disk, log, pc, prs, df,
          i, exc, raisedAt, status, stderr, stdout, caught, saves, run, logBase,
          diskAtStart, prevOutcome>>

inputs == <<input_file, template_file, output_file>>

(***************************************************************************)
(* Bounds of the model.                                                    *)
(***************************************************************************)
MaxRows == 2
MaxRuns == 2

(***************************************************************************)
(* Cell values as pandas hands them over: a string, or NaN for an empty    *)
(* cell.                                                                   *)
(***************************************************************************)
Str(s) == [t |-> "str", v |-> s]
NaN == [t |-> "nan", v |-> ""]

notna(c) == c.t # "nan"

\* str(c), as an f-string formats a cell
Fmt(c) == IF c.t = "nan" THEN "nan" ELSE c.v

\* the text setters of python-pptx accept str only
IsText(c) == c.t = "str"

(***************************************************************************)
(* Paths.                                                                  *)
(***************************************************************************)
RECURSIVE PathStr(_)
PathStr(p) ==
    IF p = <<>> THEN ""
    ELSE IF Len(p) = 1 THEN p[1]
    ELSE p[1] \o "/" \o PathStr(Tail(p))

dirname(p) == IF p = <<>> THEN <<>> ELSE SubSeq(p, 1, Len(p) - 1)

Prefixes(p) == {SubSeq(p, 1, n) : n \in 1..Len(p)}

DEFAULT_INPUT == "input/requirements.xlsx"
DEFAULT_OUTPUT == <<"output", "presentation.pptx">>
TEMPLATE_FILE == "templates/General presentation.pptx"

\* mutant: os.makedirs(d) without exist_ok, which raises for an existing directory
makedirs_without_exist_ok(d, ds) == d = <<>> \/ d \in ds

\* os.makedirs(d, exist_ok=True) raises for the empty path
makedirs_raises(d, ds) == d = <<>>

makedirs_dirs(d, ds) == ds \cup Prefixes(d)

(***************************************************************************)
(* validate_input                                                          *)
(***************************************************************************)
required_columns == <<"Section", "Title", "Description", "Priority">>

RECURSIVE Join(_, _)
Join(s, sep) ==
    IF s = <<>> THEN ""
    ELSE IF Len(s) = 1 THEN s[1]
    ELSE s[1] \o sep \o Join(Tail(s), sep)

RECURSIVE Filter(_, _)
Filter(s, keep) ==
    IF s = <<>> THEN <<>>
    ELSE IF s[1] \in keep THEN <<s[1]>> \o Filter(Tail(s), keep)
    ELSE Filter(Tail(s), keep)

Required == {required_columns[k] : k \in DOMAIN required_columns}

\* mutant: only the first missing column is reported
missing_cols_first_only(columns) ==
    SubSeq(Filter(required_columns, Required \ columns), 1, 1)

\* [col for col in required_columns if col not in df.columns]
missing_cols(columns) == Filter(required_columns, Required \ columns)

validate_message(columns) ==
    "Missing required columns: " \o Join(missing_cols(columns), ", ")

not_found_message(path) == "Excel file " \o path \o " not found"

(***************************************************************************)
(* Slides and shapes.                                                      *)
(***************************************************************************)
RGBColor(r, g, b) == <<r, g, b>>
NoFill == <<>>

Shape(kind, text, fill, path) ==
    [kind |-> kind, text |-> text, fill |-> fill, path |-> path]

\* a slide fresh from the layout: empty placeholders, no background fill
NewSlide == [background |-> NoFill, title |-> "", body |-> "", shapes |-> <<>>]

\* mutant: the new slide is inserted at the front of the deck
add_slide_at_front(p) == <<NewSlide>> \o p

add_slide(p) == Append(p, NewSlide)

\* the last slide of p, changed by f
Last(p) == p[Len(p)]
WithLast(p, s) == [p EXCEPT ![Len(p)] = s]

(***************************************************************************)
(* add_priority_badge, set_slide_background                                *)
(***************************************************************************)
\* mutant: the colours of "Medium" and "Low" are exchanged
priority_colors_swapped(priority) ==
    IF priority = Str("High") THEN RGBColor(198, 31, 60)
    ELSE IF priority = Str("Medium") THEN RGBColor(59, 168, 85)
    ELSE IF priority = Str("Low") THEN RGBColor(255, 192, 0)
    ELSE RGBColor(128, 128, 128)

priority_colors(priority) ==
    IF priority = Str("High") THEN RGBColor(198, 31, 60)
    ELSE IF priority = Str("Medium") THEN RGBColor(255, 192, 0)
    ELSE IF priority = Str("Low") THEN RGBColor(59, 168, 85)
    ELSE RGBColor(128, 128, 128)

background_color(priority) ==
    IF priority = Str("High") THEN RGBColor(255, 99, 71)
    ELSE IF priority = Str("Medium") THEN RGBColor(255, 223, 77)
    ELSE RGBColor(152, 251, 152)

set_slide_background(slide, priority) ==
    [slide EXCEPT !.background = background_color(priority)]

\* mutant: the separator has lost its spaces
slide_title_bare_dash(row) == Fmt(row["Section"]) \o "-" \o Fmt(row["Title"])

slide_title(row) == Fmt(row["Section"]) \o " - " \o Fmt(row["Title"])

img_path(row) == "diagrams" \o "/" \o Fmt(row["Diagram Needed"]) \o ".png"

(***************************************************************************)
(* The inputs a run can be given.                                          *)
(***************************************************************************)
AllColumns == Required \cup {"Diagram Needed", "Logo"}

Row(section, title, description, priority, diagram, logo) ==
    ("Section" :> section) @@ ("Title" :> title) @@
    ("Description" :> description) @@ ("Priority" :> priority) @@
    ("Diagram Needed" :> diagram) @@ ("Logo" :> logo)

\* the files that exist besides the inputs and the output
ExistingFiles == {"diagrams/flow.png", "assets/logo.png"}

CompleteRow ==
    Row(Str("Intro"), Str("Goals"), Str("Project goals"), Str("High"),
        Str("flow"), Str("assets/logo.png"))

SampleRows == {
    CompleteRow,
    Row(Str("Scope"), NaN, Str("In scope"), Str("Medium"),
        Str("arch"), NaN),
    Row(Str("Risks"), Str("Budget"), Str("Cost risk"), Str("Low"),
        NaN, Str("assets/missing.png")),
    Row(Str("Plan"), Str("Rollout"), Str("Phased"), Str("Critical"),
        Str("arch"), Str("assets/logo.png")),
    Row(Str("Notes"), Str("Todo"), NaN, Str("High"),
        NaN, NaN),
    Row(Str("Legal"), Str("Terms"), Str("Terms of use"), NaN,
        Str("flow"), Str("assets/missing.png")) }

SeqsUpTo(S, n) == UNION {[1..k -> S] : k \in 0..n}

\* a DataFrame row holds the columns of the sheet only
Sheet(columns, rows) ==
    [exists |-> TRUE, columns |-> columns,
     rows |-> [k \in DOMAIN rows |-> [c \in columns |-> rows[k][c]]]]

NoSheet == [exists |-> FALSE, columns |-> {}, rows |-> <<>>]

ValidColumnSets == {AllColumns, Required \cup {"Diagram Needed"}, Required}

InvalidColumnSets == {AllColumns \ m : m \in (SUBSET Required) \ {{}}}

Spreadsheets ==
    {NoSheet}
    \cup {Sheet(c, r) : c \in ValidColumnSets, r \in SeqsUpTo(SampleRows, MaxRows)}
    \cup {Sheet(c, r) : c \in InvalidColumnSets,
                        r \in {<<>>, <<CompleteRow>>}}

TemplateSlide ==
    [background |-> NoFill, title |-> "Agenda", body |-> "", shapes |-> <<>>]

Templates ==
    { [exists |-> FALSE, layouts |-> 0, slides |-> <<>>],
      [exists |-> TRUE, layouts |-> 11, slides |-> <<>>],
      [exists |-> TRUE, layouts |-> 11, slides |-> <<TemplateSlide>>],
      [exists |-> TRUE, layouts |-> 2, slides |-> <<TemplateSlide>>] }

\* the default, a bare file name, an existing directory, a nested new directory
OutputPaths ==
    {DEFAULT_OUTPUT, <<"deck.pptx">>, <<"out", "deck">>, <<"reports", "q1", "deck.pptx">>}

BaseDirs == {<<"out">>, <<"out", "deck">>}

NoFile == [present |-> FALSE, slides |-> <<>>]

OldFile ==
    [present |-> TRUE,
     slides |-> <<[background |-> NoFill, title |-> "Last quarter",
                   body |-> "", shapes |-> <<>>]>>]

NoOutcome == [status |-> 0, stderr |-> "", stdout |-> "", disk |-> NoFile]

Outcome == [status |-> status, stderr |-> stderr, stdout |-> stdout, disk |-> disk]

Init ==
    /\ input_file \in Spreadsheets
    /\ template_file \in Templates
    /\ output_file \in OutputPaths
    /\ dirs \in {BaseDirs, BaseDirs \cup Prefixes(dirname(output_file))}
    /\ disk \in {NoFile} \cup
                (IF Prefixes(dirname(output_file)) \subseteq dirs /\ output_file \notin dirs
                 THEN {OldFile} ELSE {})
    /\ log = <<>>
    /\ pc = "makedirs"
    /\ prs = <<>>
    /\ df = [columns |-> {}, rows |-> <<>>]
    /\ i = 0
    /\ exc = ""
    /\ raisedAt = ""
    /\ status = 0
    /\ stderr = ""
    /\ stdout = ""
    /\ caught = 0
    /\ saves = 0
    /\ run = 1
    /\ logBase = 0
    /\ diskAtStart = disk
    /\ prevOutcome = NoOutcome

(***************************************************************************)
(* create_ppt, step by step.                                               *)
(***************************************************************************)
Entry(level, message) == [level |-> level, message |-> message]

Raise(message) == pc' = "except" /\ exc' = message /\ raisedAt' = pc

row == df.rows[i]

\* the for statement: the next row, or the statement after the loop
LoopHead(n, d) == IF n < Len(d.rows) THEN "loop" ELSE "save"

LayoutIndex == 2

\* os.makedirs(os.path.dirname(output_file), exist_ok=True)
MakeDirs ==
    /\ pc = "makedirs"
    /\ IF makedirs_raises(dirname(output_file), dirs)
       THEN /\ Raise("[Errno 2] No such file or directory: ''")
            /\ UNCHANGED dirs
       ELSE /\ dirs' = makedirs_dirs(dirname(output_file), dirs)
            /\ pc' = "template"
            /\ UNCHANGED <<exc, raisedAt>>
    /\ UNCHANGED <<inputs, disk, log, prs, df, i, status, stderr, stdout,
                   caught, saves, run, logBase, diskAtStart, prevOutcome>>

\* prs = Presentation(template_file)
LoadTemplate ==
    /\ pc = "template"
    /\ IF ~template_file.exists
       THEN /\ Raise("Package not found at '" \o TEMPLATE_FILE \o "'")
            /\ UNCHANGED prs
       ELSE /\ prs' = template_file.slides
            /\ pc' = "validate"
            /\ UNCHANGED <<exc, raisedAt>>
    /\ UNCHANGED <<inputs, dirs, disk, log, df, i, status, stderr, stdout,
                   caught, saves, run, logBase, diskAtStart, prevOutcome>>

\* df = validate_input(input_file)
ValidateInput ==
    /\ pc = "validate"
    /\ IF ~input_file.exists
       THEN /\ Raise(not_found_message(DEFAULT_INPUT))
            /\ UNCHANGED df
       ELSE IF missing_cols(input_file.columns) # <<>>
       THEN /\ Raise(validate_message(input_file.columns))
            /\ UNCHANGED df
       ELSE /\ df' = [columns |-> input_file.columns, rows |-> input_file.rows]
            /\ pc' = LoopHead(0, df')
            /\ UNCHANGED <<exc, raisedAt>>
    /\ UNCHANGED <<inputs, dirs, disk, log, prs, i, status, stderr, stdout,
                   caught, saves, run, logBase, diskAtStart, prevOutcome>>

\* for _, row in df.iterrows(): add_slide, set_slide_background
AddSlide ==
    /\ pc = "loop"
    /\ i' = i + 1
    /\ IF template_file.layouts <= LayoutIndex
       THEN /\ Raise("slide layout index out of range")
            /\ UNCHANGED prs
       ELSE /\ prs' = WithLast(add_slide(prs),
                        set_slide_background(NewSlide, df.rows[i + 1]["Priority"]))
            /\ pc' = "title"
            /\ UNCHANGED <<exc, raisedAt>>
    /\ UNCHANGED <<inputs, dirs, disk, log, df, status, stderr, stdout,
                   caught, saves, run, logBase, diskAtStart, prevOutcome>>

\* title.text = f"{row['Section']} - {row['Title']}"
SetTitle ==
    /\ pc = "title"
    /\ prs' = WithLast(prs, [Last(prs) EXCEPT !.title = slide_title(row)])
    /\ pc' = "content"
    /\ UNCHANGED <<inputs, dirs, disk, log, df, i, exc, raisedAt, status, stderr, stdout,
                   caught, saves, run, logBase, diskAtStart, prevOutcome>>

\* content.text = row['Description']
SetContent ==
    /\ pc = "content"
    /\ IF ~IsText(row["Description"])
       THEN /\ Raise("text must be str")
            /\ UNCHANGED prs
       ELSE /\ prs' = WithLast(prs, [Last(prs) EXCEPT !.body = row["Description"].v])
            /\ pc' = "diagram"
            /\ UNCHANGED <<exc, raisedAt>>
    /\ UNCHANGED <<inputs, dirs, disk, log, df, i, status, stderr, stdout,
                   caught, saves, run, logBase, diskAtStart, prevOutcome>>

Picture(path) == Shape("picture", "", NoFill, path)

Badge(priority, text) == Shape("badge", text, priority_colors(priority), "")

AddShape(p, shape) ==
    WithLast(p, [Last(p) EXCEPT !.shapes = Append(@, shape)])

\* mutant: add_picture is called without the os.path.exists test
AddDiagramUnchecked ==
    /\ pc = "diagram"
    /\ IF "Diagram Needed" \in DOMAIN row /\ notna(row["Diagram Needed"])
       THEN IF img_path(row) \in ExistingFiles
            THEN /\ prs' = AddShape(prs, Picture(img_path(row)))
                 /\ pc' = "badge"
                 /\ UNCHANGED <<exc, raisedAt>>
            ELSE /\ Raise("[Errno 2] No such file or directory: '" \o img_path(row) \o "'")
                 /\ UNCHANGED prs
       ELSE /\ pc' = "badge"
            /\ UNCHANGED <<prs, exc, raisedAt>>
    /\ UNCHANGED <<inputs, dirs, disk, log, df, i, status, stderr, stdout,
                   caught, saves, run, logBase, diskAtStart, prevOutcome>>

\* if 'Diagram Needed' in row and pd.notna(row['Diagram Needed']): ...
AddDiagram ==
    /\ pc = "diagram"
    /\ IF "Diagram Needed" \in DOMAIN row /\ notna(row["Diagram Needed"])
       THEN IF img_path(row) \in ExistingFiles
            THEN /\ prs' = AddShape(prs, Picture(img_path(row)))
                 /\ UNCHANGED log
            ELSE /\ log' = Append(log, Entry("WARNING", "Diagram not found: " \o img_path(row)))
                 /\ UNCHANGED prs
       ELSE UNCHANGED <<prs, log>>
    /\ pc' = "badge"
    /\ UNCHANGED <<inputs, dirs, disk, df, i, exc, raisedAt, status, stderr, stdout,
                   caught, saves, run, logBase, diskAtStart, prevOutcome>>

\* add_priority_badge(slide, row['Priority'])
AddBadge ==
    /\ pc = "badge"
    /\ IF ~IsText(row["Priority"])
       THEN /\ prs' = AddShape(prs, Badge(row["Priority"], ""))
            /\ Raise("text must be str")
       ELSE /\ prs' = AddShape(prs, Badge(row["Priority"], row["Priority"].v))
            /\ pc' = "logo"
            /\ UNCHANGED <<exc, raisedAt>>
    /\ UNCHANGED <<inputs, dirs, disk, log, df, i, status, stderr, stdout,
                   caught, saves, run, logBase, diskAtStart, prevOutcome>>

\* mutant: prs.save sits inside the loop, after the logo
AddLogoAndSave ==
    /\ pc = "logo"
    /\ IF "Logo" \in DOMAIN row /\ notna(row["Logo"])
       THEN IF Fmt(row["Logo"]) \in ExistingFiles
            THEN /\ prs' = AddShape(prs, Picture(Fmt(row["Logo"])))
                 /\ UNCHANGED log
            ELSE /\ log' = Append(log, Entry("WARNING", "Logo not found: " \o Fmt(row["Logo"])))
                 /\ UNCHANGED prs
       ELSE UNCHANGED <<prs, log>>
    /\ disk' = [present |-> TRUE, slides |-> prs']
    /\ saves' = saves + 1
    /\ pc' = LoopHead(i, df)
    /\ UNCHANGED <<inputs, dirs, df, i, exc, raisedAt, status, stderr, stdout,
                   caught, run, logBase, diskAtStart, prevOutcome>>

\* if 'Logo' in row and pd.notna(row['Logo']): add_logo(slide, row['Logo'])
AddLogo ==
    /\ pc = "logo"
    /\ IF "Logo" \in DOMAIN row /\ notna(row["Logo"])
       THEN IF Fmt(row["Logo"]) \in ExistingFiles
            THEN /\ prs' = AddShape(prs, Picture(Fmt(row["Logo"])))
                 /\ UNCHANGED log
            ELSE /\ log' = Append(log, Entry("WARNING", "Logo not found: " \o Fmt(row["Logo"])))
                 /\ UNCHANGED prs
       ELSE UNCHANGED <<prs, log>>
    /\ pc' = LoopHead(i, df)
    /\ UNCHANGED <<inputs, dirs, disk, df, i, exc, raisedAt, status, stderr, stdout,
                   caught, saves, run, logBase, diskAtStart, prevOutcome>>

\* prs.save(output_file), once the loop is over
Save ==
    /\ pc = "save"
    /\ IF output_file \in dirs
       THEN /\ Raise("[Errno 21] Is a directory: '" \o PathStr(output_file) \o "'")
            /\ UNCHANGED <<disk, saves>>
       ELSE /\ disk' = [present |-> TRUE, slides |-> prs]
            /\ saves' = saves + 1
            /\ pc' = "report"
            /\ UNCHANGED <<exc, raisedAt>>
    /\ UNCHANGED <<inputs, dirs, log, prs, df, i, status, stderr, stdout,
                   caught, run, logBase, diskAtStart, prevOutcome>>

success_message ==
    "Successfully created " \o PathStr(output_file) \o " with "
        \o ToString(Len(df.rows)) \o " slides"

\* print(...); logging.info(...); the script ends with status 0
Report ==
    /\ pc = "report"
    /\ stdout' = success_message
    /\ log' = Append(log, Entry("INFO", "Created presentation: " \o PathStr(output_file)))
    /\ status' = 0
    /\ pc' = "exited"
    /\ UNCHANGED <<inputs, dirs, disk, prs, df, i, exc, raisedAt, stderr,
                   caught, saves, run, logBase, diskAtStart, prevOutcome>>

\* mutant: the except clause logs the error and returns, without sys.exit
ExceptWithoutExit ==
    /\ pc = "except"
    /\ log' = Append(log, Entry("ERROR", "Error processing file: " \o exc))
    /\ status' = 0
    /\ caught' = caught + 1
    /\ pc' = "exited"
    /\ UNCHANGED <<inputs, dirs, disk, prs, df, i, exc, raisedAt, stdout, stderr,
                   saves, run, logBase, diskAtStart, prevOutcome>>

\* except Exception as e: logging.error(...); sys.exit(f"Error: {str(e)}")
Except ==
    /\ pc = "except"
    /\ log' = Append(log, Entry("ERROR", "Error processing file: " \o exc))
    /\ stderr' = "Error: " \o exc
    /\ status' = 1
    /\ caught' = caught + 1
    /\ pc' = "exited"
    /\ UNCHANGED <<inputs, dirs, disk, prs, df, i, exc, raisedAt, stdout,
                   saves, run, logBase, diskAtStart, prevOutcome>>

\* the script is started again with the same arguments
Main ==
    /\ pc = "exited"
    /\ run < MaxRuns
    /\ run' = run + 1
    /\ prevOutcome' = Outcome
    /\ logBase' = Len(log)
    /\ diskAtStart' = disk
    /\ pc' = "makedirs"
    /\ prs' = <<>>
    /\ df' = [columns |-> {}, rows |-> <<>>]
    /\ i' = 0
    /\ exc' = ""
    /\ raisedAt' = ""
    /\ status' = 0
    /\ stderr' = ""
    /\ stdout' = ""
    /\ caught' = 0
    /\ saves' = 0
    /\ UNCHANGED <<inputs, dirs, disk, log>>

Next ==
    \/ MakeDirs
    \/ LoadTemplate
    \/ ValidateInput
    \/ AddSlide
    \/ SetTitle
    \/ SetContent
    \/ AddDiagram
    \/ AddBadge
    \/ AddLogo
    \/ Save
    \/ Report
    \/ Except
    \/ Main

Spec == Init /\ [][Next]_vars

(***************************************************************************)
(* Vocabulary of the properties.                                           *)
(***************************************************************************)
T == Len(template_file.slides)
R == Len(input_file.rows)

ColumnsValid == input_file.exists /\ Required \subseteq input_file.columns

LacksColumns == input_file.exists /\ ~(Required \subseteq input_file.columns)

Badges(slide) == SelectSeq(slide.shapes, LAMBDA sh : sh.kind = "badge")

Pictures(slide) == {slide.shapes[k].path : k \in {j \in DOMAIN slide.shapes : slide.shapes[j].kind = "picture"}}

\* log entries written by the current run
RunLog == SubSeq(log, logBase + 1, Len(log))

Logged(level, message) ==
    \E k \in DOMAIN RunLog : RunLog[k] = [level |-> level, message |-> message]

Errors == SelectSeq(RunLog, LAMBDA e : e.level = "ERROR")

\* the run has written the output file
Saved == saves > 0

\* every row's slide is finished: between two iterations, and after the loop
SlidesComplete == pc \in {"loop", "save", "report"} \/ (pc = "exited" /\ raisedAt = "")

\* no step of the run has anything to raise: the output path has a directory
\* part and is not itself a directory, the template loads and has the layout
\* (or no row needs it), and every row's Description and Priority is text
RunCanSucceed ==
    /\ dirname(output_file) # <<>>
    /\ output_file \notin dirs
    /\ template_file.exists
    /\ (R > 0 => template_file.layouts > 2)
    /\ ColumnsValid
    /\ \A k \in 1..R : /\ input_file.rows[k]["Description"].t = "str"
                       /\ input_file.rows[k]["Priority"].t = "str"

(***************************************************************************)
(* C1: a spreadsheet that lacks required columns makes the run fail before *)
(* any slide is added and before the output file is written (the file on   *)
(* disk stays as it was), and the error validate_input raises names every  *)
(* missing column, in the order of required_columns; a run that gets as    *)
(* far as validate_input ends with exactly that error.                     *)
(***************************************************************************)
C1_MissingColumnsFailEarly ==
    LacksColumns =>
        /\ Len(prs) <= T
        /\ ~Saved
        /\ disk = diskAtStart
        /\ stdout = ""
        /\ pc = "exited" => status # 0
        /\ raisedAt = "validate" =>
               exc = "Missing required columns: " \o
                     Join(SelectSeq(required_columns,
                                    LAMBDA c : c \notin input_file.columns), ", ")
        /\ (pc = "exited" /\ dirname(output_file) # <<>> /\ template_file.exists)
               => raisedAt = "validate"

C1_Witness ==
    /\ pc = "exited"
    /\ raisedAt = "validate"
    /\ stderr = "Error: Missing required columns: Title, Priority"
    /\ R > 0

TitleAndBodyOf(slide, r) ==
    /\ slide.title = Fmt(r["Section"]) \o " - " \o Fmt(r["Title"])
    /\ r["Description"].t = "str"
    /\ slide.body = r["Description"].v

C3_TitleAndBody ==
    /\ SlidesComplete =>
          \A k \in 1..i : TitleAndBodyOf(prs[T + k], input_file.rows[k])
    /\ Saved =>
          \A k \in 1..R : TitleAndBodyOf(disk.slides[T + k], input_file.rows[k])

C3_Witness ==
    /\ Saved
    /\ R = 2
    /\ disk.slides[T + 1].title = "Intro - Goals"
    /\ disk.slides[T + 1].body = "Project goals"
    /\ disk.slides[T + 2].title = "Scope - nan"

(***************************************************************************)
(* C4: every finished slide has exactly one priority badge; its text is    *)
(* the row's Priority and its fill is red for "High", amber for "Medium",  *)
(* green for "Low" and gray for any other value.                           *)
(***************************************************************************)
BadgeOf(slide, r) ==
    /\ Len(Badges(slide)) = 1
    /\ r["Priority"].t = "str"
    /\ Badges(slide)[1].text = r["Priority"].v
    /\ Badges(slide)[1].fill =
          CASE r["Priority"].v = "High" -> <<198, 31, 60>>
            [] r["Priority"].v = "Medium" -> <<255, 192, 0>>
            [] r["Priority"].v = "Low" -> <<59, 168, 85>>
            [] OTHER -> <<128, 128, 128>>

C4_PriorityBadge ==
    /\ SlidesComplete =>
          \A k \in 1..i : BadgeOf(prs[T + k], input_file.rows[k])
    /\ Saved =>
          \A k \in 1..R : BadgeOf(disk.slides[T + k], input_file.rows[k])

C4_Witness ==
    /\ Saved
    /\ R = 2
    /\ input_file.rows[1]["Priority"].v = "Critical"
    /\ Badges(disk.slides[T + 1])[1].fill = <<128, 128, 128>>
    /\ input_file.rows[2]["Priority"].v = "Medium"
    /\ Badges(disk.slides[T + 2])[1].fill = <<255, 192, 0>>

(***************************************************************************)
(* C5: a missing optional asset never aborts the run.  The diagram and     *)
(* logo steps never raise; a slide whose diagram file or logo file does    *)
(* not exist is finished without that picture and a warning naming the     *)
(* path is logged; and a run in which nothing else can raise processes     *)
(* every row and saves the file, whatever assets are missing.              *)
(***************************************************************************)
Wanted(r, column) == column \in DOMAIN r /\ r[column].t # "nan"

DiagramPath(r) == "diagrams/" \o Fmt(r["Diagram Needed"]) \o ".png"

ExpectedPictures(r) ==
    (IF Wanted(r, "Diagram Needed") /\ DiagramPath(r) \in ExistingFiles
     THEN {DiagramPath(r)} ELSE {})
    \cup (IF Wanted(r, "Logo") /\ r["Logo"].v \in ExistingFiles
          THEN {r["Logo"].v} ELSE {})

AssetsOf(slide, r) ==
    /\ Pictures(slide) = ExpectedPictures(r)
    /\ (Wanted(r, "Diagram Needed") /\ DiagramPath(r) \notin ExistingFiles)
          => Logged("WARNING", "Diagram not found: " \o DiagramPath(r))
    /\ (Wanted(r, "Logo") /\ r["Logo"].v \notin ExistingFiles)
          => Logged("WARNING", "Logo not found: " \o r["Logo"].v)

C5_MissingAssetNotFatal ==
    /\ raisedAt \notin {"diagram", "logo"}
    /\ SlidesComplete =>
          \A k \in 1..i : AssetsOf(prs[T + k], input_file.rows[k])
    /\ Saved =>
          \A k \in 1..R : AssetsOf(disk.slides[T + k], input_file.rows[k])
    /\ (pc = "exited" /\ RunCanSucceed) =>
          (status = 0 /\ Saved /\ i = R /\ Len(disk.slides) = T + R)

C5_Witness ==
    /\ pc = "exited"
    /\ status = 0
    /\ Saved
    /\ R = 2
    /\ Logged("WARNING", "Diagram not found: diagrams/arch.png")
    /\ Logged("WARNING", "Logo not found: assets/missing.png")
    /\ Pictures(disk.slides[T + 1]) = {}
    /\ Pictures(disk.slides[T + 2]) = {}

(***************************************************************************)
(* C6: every exception raised in create_ppt is caught once, logged once    *)
(* as an error and ends the process with a non-zero status and the         *)
(* message "Error: <exception>"; the process ends with status 0 only when  *)
(* nothing was raised and the output file was saved.                       *)
(***************************************************************************)
C6_FailuresAreTerminalAndReported ==
    /\ pc = "except" => raisedAt # ""
    /\ pc = "exited" =>
          IF raisedAt # ""
          THEN /\ status # 0
               /\ caught = 1
               /\ stderr = "Error: " \o exc
               /\ Errors = <<[level |-> "ERROR",
                              message |-> "Error processing file: " \o exc]>>
               /\ stdout = ""
          ELSE /\ status = 0
               /\ caught = 0
               /\ Errors = <<>>
               /\ Saved
               /\ disk.present
    /\ (pc = "exited" /\ status = 0) => (Saved /\ disk.slides = prs)

C6_Witness ==
    /\ pc = "exited"
    /\ raisedAt = "badge"
    /\ i = 2
    /\ status = 1
    /\ stderr = "Error: text must be str"

(***************************************************************************)
(* C7: a run started again with the same inputs, on the file system the    *)
(* previous run left, ends with the same exit status, the same messages    *)
(* and the same output document.                                           *)
(***************************************************************************)
C7_SameInputsSameOutcome ==
    (run > 1 /\ pc = "exited") => Outcome = prevOutcome

C7_Witness ==
    /\ run = 2
    /\ pc = "exited"
    /\ Saved
    /\ R = 2
    /\ Len(disk.slides) = T + 2

(***************************************************************************)
(* C8: for a valid template and a valid spreadsheet, every output path     *)
(* that is not a directory ends in success: the directory of the output    *)
(* file exists, the presentation is saved, and the success message gives   *)
(* the number of input rows.  (Violated by a bare file name.)              *)
(***************************************************************************)
ValidTemplate == template_file.exists /\ template_file.layouts > 2

ValidSpreadsheet ==
    /\ ColumnsValid
    /\ \A k \in 1..R : /\ input_file.rows[k]["Description"].t = "str"
                       /\ input_file.rows[k]["Priority"].t = "str"

C8_AnyOutputPathIsSaved ==
    (pc = "exited" /\ ValidTemplate /\ ValidSpreadsheet /\ output_file \notin dirs) =>
        /\ status = 0
        /\ Saved
        /\ Prefixes(dirname(output_file)) \subseteq dirs
        /\ stdout = "Successfully created " \o PathStr(output_file) \o " with "
                        \o ToString(R) \o " slides"

(***************************************************************************)
(* C9: the output file is written at most once per run and only after      *)
(* every row has its slide; a run that fails at makedirs, at the template  *)
(* load, at validation or while a slide is populated never reaches the     *)
(* save, and leaves the file at the output path as it was.                 *)
(***************************************************************************)
BeforeSave == {"makedirs", "template", "validate", "loop", "content", "badge"}

C9_SavedOnceAtTheEnd ==
    /\ saves <= 1
    /\ Saved => (i = R /\ Len(prs) = T + R /\ disk = [present |-> TRUE, slides |-> prs])
    /\ ~Saved => disk = diskAtStart
    /\ raisedAt \in BeforeSave => (~Saved /\ pc \in {"except", "exited"})
    /\ pc \in {"save", "report"} => raisedAt = ""

C9_Witness ==
    /\ pc = "exited"
    /\ raisedAt = "content"
    /\ i = 2
    /\ Len(prs) = T + 2
    /\ diskAtStart = OldFile
    /\ disk = OldFile

(***************************************************************************)
(* C10: every slide's background is set when the slide is added, before    *)
(* its title and body: light red for "High", light yellow for "Medium",    *)
(* light green for "Low", and for any other Priority a fill that is none   *)
(* of these three.  (Violated: any other Priority gets light green.)       *)
(***************************************************************************)
PriorityBackgrounds == {<<255, 99, 71>>, <<255, 223, 77>>, <<152, 251, 152>>}

BackgroundOf(slide, r) ==
    /\ slide.background # NoFill
    /\ r["Priority"] = Str("High") => slide.background = <<255, 99, 71>>
    /\ r["Priority"] = Str("Medium") => slide.background = <<255, 223, 77>>
    /\ r["Priority"] = Str("Low") => slide.background = <<152, 251, 152>>
    /\ r["Priority"] \notin {Str("High"), Str("Medium"), Str("Low")}
          => slide.background \notin PriorityBackgrounds

C10_BackgroundByPriority ==
    \A k \in 1..(Len(prs) - T) : BackgroundOf(prs[T + k], input_file.rows[k])

====
